---- MODULE Spec2Model ----
(***************************************************************************)
(* A model of agent.py: the generate / execute / diagnose / repair loop    *)
(* of run_agent_loop, the command entry point that calls it, and the pure  *)
(* helpers it uses (slugify, the module-not-found search, the choice of    *)
(* the diagnostic text).                                                   *)
(*                                                                         *)
(* Texts are sequences.  A task text is a sequence of one-character        *)
(* strings.  A diagnostic text is a sequence of lines, each line being a   *)
(* record that says what the line holds: only blanks ("ws"), a             *)
(* ModuleNotFoundError message naming a module ("mnf"), or any other text  *)
(* ("txt").  The empty sequence is the empty string.                       *)
(*                                                                         *)
(* Spec and FairSpec are one run of the command.  DiagSpec is the except   *)
(* clause of run_agent_loop applied to one failed execution, over every    *)
(* pair of standard error and standard output texts.  PairSpec is two      *)
(* invocations of the command that run at the same time in one working     *)
(* directory.  GatewaySpec is the sequence of query_llm calls of one run,   *)
(* with ensure_ollama_running, the backend processes and cleanup_ollama at  *)
(* process exit.                                                            *)
(***************************************************************************)
EXTENDS Integers, Sequences, FiniteSets, TLC

VARIABLES
    argv,         \* the command line argument: a task text, or NoArg
    pc,           \* where the process is
    filename,     \* run_agent_loop's filename (the slug it is built from)
    code,         \* run_agent_loop's code: the current candidate body
    attempt,      \* the loop index
    error_msg,    \* the diagnostic text of the latest failed execution
    fs,           \* the files of the working directory
    requests,     \* how many times get_code was called
    lastReq,      \* the get_code request the model gateway is working on
    installCalls, \* how many times install_package was called
    execs,        \* how many times the script was executed
    ran,          \* the body the latest execution read from the script file
    lastInstall,  \* what install_package answered in the latest handler
    outcome,      \* what the run printed last: success or max retries
    reported,     \* the diagnostic printed after "Failed after max retries"
    raised,       \* the exception that ended the process, if any
    exitStatus,   \* the status the process exited with
    \* one failed execution and what the except clause makes of it
    d_pc,         \* "input", "message", "classified"; "off" when not modelled
    d_stderr,     \* what the child wrote to its standard error
    d_stdout,     \* what the child wrote to its standard output
    d_msg,        \* error_msg
    d_class,      \* the classification: the tag, the package, the text
    \* two invocations of the command in one working directory
    p_task,       \* the task text of each invocation
    p_pc,         \* where each invocation is
    p_file,       \* each invocation's filename
    p_code,       \* each invocation's code
    p_attempt,    \* each invocation's loop index
    p_ran,        \* whose file each invocation's latest execution ran
    p_fs,         \* the files of the shared working directory
    p_writer,     \* for each path written, the invocation that wrote it last
    p_over,       \* an invocation has overwritten the other's file
    \* the model requests of one run and the backend process
    g_pc,         \* "running", "exiting", "exited"; "off" when not modelled
    g_ext,        \* a backend that this run did not start is running
    g_own,        \* the backend processes this run started that are running
    OLLAMA_PROCESS, \* the global: 0 for None, else the process started last
    g_started,    \* how many backend processes this run started
    g_handlers,   \* how many times cleanup_ollama is registered with atexit
    g_calls,      \* how many times query_llm was called
    g_startOn,    \* the results of the reachability checks that led to a start
    g_stopped,    \* the backends this run terminated: 0 is the foreign one
    g_status      \* the status the process exits with

loopVars == <<argv, pc, filename, code, attempt, error_msg, fs, requests,
              lastReq, installCalls, execs, ran, lastInstall, outcome,
              reported, raised, exitStatus>>

diagVars == <<d_pc, d_stderr, d_stdout, d_msg, d_class>>

pairVars == <<p_task, p_pc, p_file, p_code, p_attempt, p_ran, p_fs, p_writer,
              p_over>>

gatewayVars == <<g_pc, g_ext, g_own, OLLAMA_PROCESS, g_started, g_handlers,
                 g_calls, g_startOn, g_stopped, g_status>>

nonLoopVars == <<diagVars, pairVars, gatewayVars>>

nonDiagVars == <<loopVars, pairVars, gatewayVars>>

nonPairVars == <<loopVars, diagVars, gatewayVars>>

nonGatewayVars == <<loopVars, diagVars, pairVars>>

vars == <<loopVars, diagVars, pairVars, gatewayVars>>

----------------------------------------------------------------------------
(* Bounds of the model *)

MaxBody == 2      \* the model gateway answers with one of the bodies 1..MaxBody
MaxLines == 2     \* a captured standard error holds at most MaxLines lines

(* Program constants *)

max_retries == 4
SlugMax == 50

----------------------------------------------------------------------------
(* Values *)

NoArg == <<"<no argument>">>
NoBody == 0
Bodies == 1..MaxBody
Modules == {"bs4", "numpy"}

Line(k, m) == [k |-> k, mod |-> m]
WS == Line("ws", "")
TXT == Line("txt", "")
Mnf(m) == Line("mnf", m)
Lines == {WS, TXT} \cup {Mnf(m) : m \in Modules}

EmptyText == <<>>
NoneText == <<Line("None", "")>>
UnknownError == <<Line("Unknown Error", "")>>
Stderrs == UNION {[1..n -> Lines] : n \in 0..MaxLines}

Repeat(c, n) == [i \in 1..n |-> c]
Tasks ==
    { <<"A", "!", " ", "\t", "b">>,
      <<"!", "?">>,
      Repeat("a", SlugMax + 1) }

NoFile == <<>>
NoReq == [kind |-> "none", task |-> NoArg, broken_code |-> NoBody,
          error_context |-> EmptyText]

----------------------------------------------------------------------------
(* slugify *)

IsSpace(c) == c \in {" ", "\t"}
IsAlnum(c) == c \in {"a", "b", "A", "B", "1"}
Lower(c) == CASE c = "A" -> "a" [] c = "B" -> "b" [] OTHER -> c

RECURSIVE DropSpaces(_)
DropSpaces(s) ==
    IF s # <<>> /\ IsSpace(Head(s)) THEN DropSpaces(Tail(s)) ELSE s

RECURSIVE CollapseSpaces(_)
CollapseSpaces(s) ==
    IF s = <<>> THEN <<>>
    ELSE IF IsSpace(Head(s)) THEN <<"_">> \o CollapseSpaces(DropSpaces(s))
    ELSE <<Head(s)>> \o CollapseSpaces(Tail(s))

Clean(text) ==
    LET kept == SelectSeq(text, LAMBDA c : IsAlnum(c) \/ IsSpace(c))
    IN  [i \in 1..Len(kept) |-> Lower(kept[i])]

Truncate(s) == SubSeq(s, 1, IF Len(s) < SlugMax THEN Len(s) ELSE SlugMax)

slugify(text) == Truncate(CollapseSpaces(Clean(text)))

Filename_NoSlug(slug) == <<"generated_", ".py">>

Filename(slug) == <<"generated_">> \o slug \o <<".py">>

----------------------------------------------------------------------------
(* The script file *)

ModeTag_Inverted(a) == IF a > 0 THEN "Generated" ELSE "Auto-Debugged"

ModeTag(a) == IF a > 0 THEN "Auto-Debugged" ELSE "Generated"

ArtifactPath_PerAttempt(name, a) == name \o <<ToString(a)>>

ArtifactPath(name, a) == name

FileBody(files, path) ==
    IF \E f \in files : f.path = path
    THEN (CHOOSE f \in files : f.path = path).body
    ELSE NoBody

WriteFile(files, path, task, mode, body) ==
    {f \in files : f.path # path}
        \cup {[path |-> path, task |-> task, mode |-> mode, body |-> body]}

----------------------------------------------------------------------------
(* The diagnostic text and its classification *)

Truthy(t) == t # NoneText /\ t # EmptyText

ErrorMsg(stderr, stdout) ==
    IF Truthy(stderr) THEN stderr
    ELSE IF Truthy(stdout) THEN stdout
    ELSE UnknownError

MatchAt(t) == {i \in 1..Len(t) : t[i].k = "mnf"}
ImportMatch(t) == MatchAt(t) # {}
MatchedModule(t) ==
    LET i == CHOOSE j \in MatchAt(t) : \A l \in MatchAt(t) : j <= l
    IN  t[i].mod

PkgName(m) ==
    IF m = "bs4" THEN "beautifulsoup4"
    ELSE IF m = "sklearn" THEN "scikit-learn"
    ELSE m

RECURSIVE LStrip(_)
LStrip(t) == IF t # <<>> /\ Head(t).k = "ws" THEN LStrip(Tail(t)) ELSE t

RECURSIVE RStrip(_)
RStrip(t) ==
    IF t # <<>> /\ t[Len(t)].k = "ws" THEN RStrip(SubSeq(t, 1, Len(t) - 1))
    ELSE t

Strip(t) == RStrip(LStrip(t))

HasLastLine(t) == Strip(t) # <<>>

----------------------------------------------------------------------------
(* The decisions of the failure handler *)

InstallAnswer(match, installed) ==
    IF ~match THEN "none" ELSE IF installed THEN "ok" ELSE "failed"

RetrySameBody_Never(match, installed) == FALSE

RetrySameBody_OnMatch(match, installed) == match

RetrySameBody(match, installed) == match /\ installed

MayRepair_OffByOne(a) == a <= max_retries - 1

MayRepair(a) == a < max_retries - 1

NextAttempt(a) == a + 1

LoopContinues_OffByOne(a) == a <= max_retries

LoopContinues(a) == a < max_retries

RepairContext(task, body, msg) ==
    [kind |-> "repair", task |-> task, broken_code |-> body,
     error_context |-> msg]

CreateContext(task) ==
    [kind |-> "create", task |-> task, broken_code |-> NoBody,
     error_context |-> EmptyText]

ReturnStatus == 0

SysExit_Zero(n) == n - n

SysExit(n) == n

SuccessReturns_Missing == FALSE

SuccessReturns == TRUE

----------------------------------------------------------------------------
(* The values of the variables of a part that a specification leaves out *)

NoClass == [tag |-> "none", pkg |-> "", text |-> EmptyText]

DiagOff ==
    /\ d_pc = "off"
    /\ d_stderr = EmptyText
    /\ d_stdout = EmptyText
    /\ d_msg = EmptyText
    /\ d_class = NoClass

GatewayOff ==
    /\ g_pc = "off"
    /\ g_ext = FALSE
    /\ g_own = {}
    /\ OLLAMA_PROCESS = 0
    /\ g_started = 0
    /\ g_handlers = 0
    /\ g_calls = 0
    /\ g_startOn = {}
    /\ g_stopped = {}
    /\ g_status = -1

PairOff ==
    /\ p_task = <<>>
    /\ p_pc = <<>>
    /\ p_file = <<>>
    /\ p_code = <<>>
    /\ p_attempt = <<>>
    /\ p_ran = <<>>
    /\ p_fs = {}
    /\ p_writer = {}
    /\ p_over = FALSE

LoopOff ==
    /\ argv = NoArg
    /\ pc = "off"
    /\ filename = NoFile
    /\ code = NoBody
    /\ attempt = 0
    /\ error_msg = EmptyText
    /\ fs = {}
    /\ requests = 0
    /\ lastReq = NoReq
    /\ installCalls = 0
    /\ execs = 0
    /\ ran = NoBody
    /\ lastInstall = "none"
    /\ outcome = "none"
    /\ reported = EmptyText
    /\ raised = "none"
    /\ exitStatus = -1

----------------------------------------------------------------------------
(* One run of the command *)

Init ==
    /\ argv \in Tasks \cup {NoArg}
    /\ pc = "main"
    /\ filename = NoFile
    /\ code = NoBody
    /\ attempt = 0
    /\ error_msg = EmptyText
    /\ fs = {}
    /\ requests = 0
    /\ lastReq = NoReq
    /\ installCalls = 0
    /\ execs = 0
    /\ ran = NoBody
    /\ lastInstall = "none"
    /\ outcome = "none"
    /\ reported = EmptyText
    /\ raised = "none"
    /\ exitStatus = -1
    /\ DiagOff
    /\ PairOff
    /\ GatewayOff

(* __main__ without a task: the usage message and sys.exit(1) *)
Usage ==
    /\ pc = "main"
    /\ argv = NoArg
    /\ pc' = "exited"
    /\ raised' = "SystemExit"
    /\ exitStatus' = SysExit(1)
    /\ UNCHANGED <<argv, filename, code, attempt, error_msg, fs, requests,
                   lastReq, installCalls, execs, ran, lastInstall, outcome,
                   reported>>
    /\ UNCHANGED nonLoopVars

(* __main__ with a task: run_agent_loop up to the first get_code request *)
Start ==
    /\ pc = "main"
    /\ argv # NoArg
    /\ filename' = Filename(slugify(argv))
    /\ requests' = requests + 1
    /\ lastReq' = CreateContext(argv)
    /\ pc' = "generate"
    /\ UNCHANGED <<argv, code, attempt, error_msg, fs, installCalls, execs,
                   ran, lastInstall, outcome, reported, raised, exitStatus>>
    /\ UNCHANGED nonLoopVars

(* get_code(prompt) returns the first body; the for loop starts *)
Generated ==
    /\ pc = "generate"
    /\ \E body \in Bodies : code' = body
    /\ lastReq' = NoReq
    /\ attempt' = 0
    /\ pc' = "write"
    /\ UNCHANGED <<argv, filename, error_msg, fs, requests, installCalls,
                   execs, ran, lastInstall, outcome, reported, raised,
                   exitStatus>>
    /\ UNCHANGED nonLoopVars

(* query_llm or ensure_ollama_running ends the process with sys.exit(1) *)
GatewayFailure ==
    /\ pc \in {"generate", "repair"}
    /\ pc' = "exited"
    /\ raised' = "SystemExit"
    /\ exitStatus' = SysExit(1)
    /\ UNCHANGED <<argv, filename, code, attempt, error_msg, fs, requests,
                   lastReq, installCalls, execs, ran, lastInstall, outcome,
                   reported>>
    /\ UNCHANGED nonLoopVars

(* the top of an iteration: the header and the body are written *)
WriteArtifact ==
    /\ pc = "write"
    /\ fs' = WriteFile(fs, ArtifactPath(filename, attempt), argv,
                       ModeTag(attempt), code)
    /\ pc' = "exec"
    /\ UNCHANGED <<argv, filename, code, attempt, error_msg, requests, lastReq,
                   installCalls, execs, ran, lastInstall, outcome, reported,
                   raised, exitStatus>>
    /\ UNCHANGED nonLoopVars

(* subprocess.run exits zero: success is printed, run_agent_loop returns
   True and the process ends; without the return the for loop would go on *)
ExecuteSuccess ==
    /\ pc = "exec"
    /\ execs' = execs + 1
    /\ ran' = FileBody(fs, filename)
    /\ outcome' = "Succeeded"
    /\ IF SuccessReturns
       THEN /\ pc' = "exited"
            /\ exitStatus' = ReturnStatus
            /\ UNCHANGED attempt
       ELSE /\ attempt' = NextAttempt(attempt)
            /\ IF LoopContinues(attempt')
               THEN /\ pc' = "write"
                    /\ UNCHANGED exitStatus
               ELSE /\ pc' = "exited"
                    /\ exitStatus' = ReturnStatus
    /\ UNCHANGED <<argv, filename, code, error_msg, fs, requests, lastReq,
                   installCalls, lastInstall, reported, raised>>
    /\ UNCHANGED nonLoopVars

(* subprocess.run exits non-zero: CalledProcessError carries the captured
   standard error; standard output is inherited, so e.stdout is None *)
ExecuteFailure ==
    /\ pc = "exec"
    /\ execs' = execs + 1
    /\ ran' = FileBody(fs, filename)
    /\ \E stderr \in Stderrs : error_msg' = ErrorMsg(stderr, NoneText)
    /\ pc' = "diagnose"
    /\ UNCHANGED <<argv, filename, code, attempt, fs, requests, lastReq,
                   installCalls, lastInstall, outcome, reported, raised,
                   exitStatus>>
    /\ UNCHANGED nonLoopVars

(* the except clause: the module-not-found search, the installer, the
   logic-error report, then a repair request or the max-retries report;
   when the for loop has no iteration left run_agent_loop returns None and
   the process ends *)
HandleFailure ==
    /\ pc = "diagnose"
    /\ \E installed \in BOOLEAN :
        LET match == ImportMatch(error_msg) IN
        /\ installCalls' = IF match THEN installCalls + 1 ELSE installCalls
        /\ lastInstall' = InstallAnswer(match, installed)
        /\ IF RetrySameBody(match, installed)
           THEN \* continue
                /\ attempt' = NextAttempt(attempt)
                /\ IF LoopContinues(attempt')
                   THEN /\ pc' = "write"
                        /\ UNCHANGED exitStatus
                   ELSE /\ pc' = "exited"
                        /\ exitStatus' = ReturnStatus
                /\ UNCHANGED <<requests, lastReq, outcome, reported, raised>>
           ELSE IF ~HasLastLine(error_msg)
           THEN \* error_msg.strip().splitlines()[-1] on an empty list
                /\ pc' = "exited"
                /\ raised' = "IndexError"
                /\ exitStatus' = 1
                /\ UNCHANGED <<attempt, requests, lastReq, outcome, reported>>
           ELSE IF MayRepair(attempt)
           THEN /\ requests' = requests + 1
                /\ lastReq' = RepairContext(argv, code, error_msg)
                /\ pc' = "repair"
                /\ UNCHANGED <<attempt, outcome, reported, raised, exitStatus>>
           ELSE /\ outcome' = "Exhausted"
                /\ reported' = error_msg
                /\ attempt' = NextAttempt(attempt)
                /\ pc' = "exited"
                /\ exitStatus' = ReturnStatus
                /\ UNCHANGED <<requests, lastReq, raised>>
    /\ UNCHANGED <<argv, filename, code, error_msg, fs, execs, ran>>
    /\ UNCHANGED nonLoopVars

(* get_code(prompt, error_context, broken_code) returns the repaired body;
   the loop goes to its next iteration *)
Repaired ==
    /\ pc = "repair"
    /\ \E body \in Bodies : code' = body
    /\ lastReq' = NoReq
    /\ attempt' = NextAttempt(attempt)
    /\ pc' = "write"
    /\ UNCHANGED <<argv, filename, error_msg, fs, requests, installCalls,
                   execs, ran, lastInstall, outcome, reported, raised,
                   exitStatus>>
    /\ UNCHANGED nonLoopVars



Next ==
    \/ Usage
    \/ Start
    \/ Generated
    \/ GatewayFailure
    \/ WriteArtifact
    \/ ExecuteSuccess
    \/ ExecuteFailure
    \/ HandleFailure
    \/ Repaired

Spec == Init /\ [][Next]_vars

FairSpec == Spec /\ WF_vars(Next)

----------------------------------------------------------------------------
(* One failed execution and the except clause: the diagnostic text and
   its classification *)

DiagModules == {"bs4", "sklearn", "numpy"}
DiagLines == {WS, TXT} \cup {Mnf(m) : m \in DiagModules}
DiagTexts == UNION {[1..n -> DiagLines] : n \in 0..MaxLines}

(* subprocess.run(..., text=True, stdout=None, stderr=subprocess.PIPE):
   the standard error is captured as text, the standard output is not
   captured, so CalledProcessError.stdout is None *)
CapturedStderr(err) == err

CapturedStdout(out) == NoneText

Classify_LastMatch(msg) ==
    IF ImportMatch(msg)
    THEN [tag |-> "MissingDependency",
          pkg |-> PkgName(msg[CHOOSE j \in MatchAt(msg) :
                                \A l \in MatchAt(msg) : l <= j].mod),
          text |-> EmptyText]
    ELSE [tag |-> "GenericFailure", pkg |-> "", text |-> msg]

Classify(msg) ==
    IF ImportMatch(msg)
    THEN [tag |-> "MissingDependency", pkg |-> PkgName(MatchedModule(msg)),
          text |-> EmptyText]
    ELSE [tag |-> "GenericFailure", pkg |-> "", text |-> msg]

DiagInit ==
    /\ d_pc = "input"
    /\ d_stderr \in DiagTexts
    /\ d_stdout \in DiagTexts
    /\ d_msg = EmptyText
    /\ d_class = NoClass
    /\ LoopOff
    /\ PairOff
    /\ GatewayOff

(* error_msg = e.stderr or e.stdout or "Unknown Error" *)
TakeDiagnostic ==
    /\ d_pc = "input"
    /\ d_msg' = ErrorMsg(CapturedStderr(d_stderr), CapturedStdout(d_stdout))
    /\ d_pc' = "message"
    /\ UNCHANGED <<d_stderr, d_stdout, d_class>>
    /\ UNCHANGED nonDiagVars

(* the search for the module-not-found message and the package name that
   goes to install_package; without a match the text goes on to the
   logic-error handling *)
ClassifyDiagnostic ==
    /\ d_pc = "message"
    /\ d_class' = Classify(d_msg)
    /\ d_pc' = "classified"
    /\ UNCHANGED <<d_stderr, d_stdout, d_msg>>
    /\ UNCHANGED nonDiagVars

DiagNext ==
    \/ TakeDiagnostic
    \/ ClassifyDiagnostic

DiagSpec == DiagInit /\ [][DiagNext]_vars

----------------------------------------------------------------------------
(* Two invocations of the command in one working directory.  Each runs
   run_agent_loop; the steps of the two interleave.  Only the writes and
   the executions touch the shared directory, so the handling of a failed
   execution (the installer, the repair request) is one step with it. *)

Procs == {1, 2}

PairTasks ==
    { <<"a">>,
      <<"A", "!">>,
      <<"b">>,
      Repeat("a", SlugMax + 1),
      Repeat("a", SlugMax) \o <<"b">> }

Writer(writers, path) ==
    IF \E w \in writers : w.path = path
    THEN (CHOOSE w \in writers : w.path = path).proc
    ELSE 0

PairInit ==
    /\ p_task \in [Procs -> PairTasks]
    /\ p_pc = [i \in Procs |-> "start"]
    /\ p_file = [i \in Procs |-> NoFile]
    /\ p_code = [i \in Procs |-> NoBody]
    /\ p_attempt = [i \in Procs |-> 0]
    /\ p_ran = [i \in Procs |-> 0]
    /\ p_fs = {}
    /\ p_writer = {}
    /\ p_over = FALSE
    /\ LoopOff
    /\ DiagOff
    /\ GatewayOff

(* slug, filename and the first get_code *)
PairStart(i) ==
    /\ p_pc[i] = "start"
    /\ p_file' = [p_file EXCEPT ![i] = Filename(slugify(p_task[i]))]
    /\ \E body \in Bodies : p_code' = [p_code EXCEPT ![i] = body]
    /\ p_pc' = [p_pc EXCEPT ![i] = "write"]
    /\ UNCHANGED <<p_task, p_attempt, p_ran, p_fs, p_writer, p_over>>
    /\ UNCHANGED nonPairVars

(* open(filename, "w") and the write of the header and the body *)
PairWrite(i) ==
    /\ p_pc[i] = "write"
    /\ LET path == ArtifactPath(p_file[i], p_attempt[i]) IN
        /\ p_fs' = WriteFile(p_fs, path, p_task[i], ModeTag(p_attempt[i]),
                             p_code[i])
        /\ p_writer' = {w \in p_writer : w.path # path}
                           \cup {[path |-> path, proc |-> i]}
        /\ p_over' = (p_over \/ Writer(p_writer, path) \notin {0, i})
    /\ p_pc' = [p_pc EXCEPT ![i] = "exec"]
    /\ UNCHANGED <<p_task, p_file, p_code, p_attempt, p_ran>>
    /\ UNCHANGED nonPairVars

(* subprocess.run of the file at filename exits zero: return True *)
PairExecuteSuccess(i) ==
    /\ p_pc[i] = "exec"
    /\ p_ran' = [p_ran EXCEPT ![i] = Writer(p_writer, p_file[i])]
    /\ p_pc' = [p_pc EXCEPT ![i] = "done"]
    /\ UNCHANGED <<p_task, p_file, p_code, p_attempt, p_fs, p_writer, p_over>>
    /\ UNCHANGED nonPairVars

(* subprocess.run of the file at filename exits non-zero; the except clause
   keeps the body (install and retry, or the final attempt) or takes a
   repaired one, and the for loop goes on or ends *)
PairExecuteFailure(i) ==
    /\ p_pc[i] = "exec"
    /\ p_ran' = [p_ran EXCEPT ![i] = Writer(p_writer, p_file[i])]
    /\ p_attempt' = [p_attempt EXCEPT ![i] = NextAttempt(p_attempt[i])]
    /\ \E body \in Bodies :
        p_code' = [p_code EXCEPT ![i] =
                      IF MayRepair(p_attempt[i]) THEN body ELSE p_code[i]]
    /\ p_pc' = [p_pc EXCEPT ![i] =
                   IF LoopContinues(p_attempt'[i]) THEN "write" ELSE "done"]
    /\ UNCHANGED <<p_task, p_file, p_fs, p_writer, p_over>>
    /\ UNCHANGED nonPairVars

PairNext ==
    \E i \in Procs :
        \/ PairStart(i)
        \/ PairWrite(i)
        \/ PairExecuteSuccess(i)
        \/ PairExecuteFailure(i)

PairSpec == PairInit /\ [][PairNext]_vars

----------------------------------------------------------------------------
(* The model requests of one run and the backend.  A run calls query_llm
   at most max_retries times, then the process exits; it also exits when a
   call fails.  At exit the atexit handlers run. *)

(* what requests.get(CHECK_URL, timeout=0.5) can do: answer, which needs a
   backend that is running; raise ConnectionError (refused when nothing
   listens; reset or connect timeout also when a backend runs); raise
   another error such as a read timeout, which needs a backend *)
Serving(ext, own) == ext \/ own # {}

CheckResults(ext, own) ==
    {"connection_error"}
        \cup (IF Serving(ext, own) THEN {"ok", "other_error"} ELSE {})

StartsBackend(check) == check = "connection_error"

(* cleanup_ollama: terminate the process the global names, if any *)
Cleanup(proc, own) == IF proc # 0 THEN own \ {proc} ELSE own

CleanupStops(proc) == IF proc # 0 THEN {proc} ELSE {}

UncaughtStatus == 1

GatewayInit ==
    /\ g_pc = "running"
    /\ g_ext \in BOOLEAN
    /\ g_own = {}
    /\ OLLAMA_PROCESS = 0
    /\ g_started = 0
    /\ g_handlers = 0
    /\ g_calls = 0
    /\ g_startOn = {}
    /\ g_stopped = {}
    /\ g_status = -1
    /\ LoopOff
    /\ DiagOff
    /\ PairOff

(* query_llm: ensure_ollama_running (the check; on ConnectionError the
   Popen, the atexit registration and the polling), then the POST *)
QueryLlm ==
    /\ g_pc = "running"
    /\ g_calls < max_retries
    /\ g_calls' = g_calls + 1
    /\ \E check \in CheckResults(g_ext, g_own),
          popen \in {"started", "not_found"},
          alive \in BOOLEAN, ready \in BOOLEAN, post \in {"ok", "error"} :
        IF check = "other_error"
        THEN \* not a ConnectionError: nothing catches it
             /\ g_pc' = "exiting"
             /\ g_status' = UncaughtStatus
             /\ UNCHANGED <<g_own, OLLAMA_PROCESS, g_started, g_handlers,
                            g_startOn>>
        ELSE IF ~StartsBackend(check)
        THEN \* the backend answered: the POST
             /\ IF post = "ok"
                THEN UNCHANGED <<g_pc, g_status>>
                ELSE g_pc' = "exiting" /\ g_status' = SysExit(1)
             /\ UNCHANGED <<g_own, OLLAMA_PROCESS, g_started, g_handlers,
                            g_startOn>>
        ELSE IF popen = "not_found"
        THEN \* FileNotFoundError: sys.exit(1)
             /\ g_pc' = "exiting"
             /\ g_status' = SysExit(1)
             /\ UNCHANGED <<g_own, OLLAMA_PROCESS, g_started, g_handlers,
                            g_startOn>>
        ELSE \* ollama serve is started; it may stop at once
             /\ g_started' = g_started + 1
             /\ OLLAMA_PROCESS' = g_started'
             /\ g_handlers' = g_handlers + 1
             /\ g_startOn' = g_startOn \cup {check}
             /\ g_own' = IF alive THEN g_own \cup {g_started'} ELSE g_own
             /\ IF ready /\ Serving(g_ext, g_own') /\ post = "ok"
                THEN UNCHANGED <<g_pc, g_status>>
                ELSE \* never ready, or the POST failed: sys.exit(1)
                     g_pc' = "exiting" /\ g_status' = SysExit(1)
    /\ UNCHANGED <<g_ext, g_stopped>>
    /\ UNCHANGED nonGatewayVars

(* a backend process this run started stops by itself *)
BackendDies ==
    /\ g_pc = "running"
    /\ \E proc \in g_own : g_own' = g_own \ {proc}
    /\ UNCHANGED <<g_pc, g_ext, OLLAMA_PROCESS, g_started, g_handlers,
                   g_calls, g_startOn, g_stopped, g_status>>
    /\ UNCHANGED nonGatewayVars

(* run_agent_loop is over, or __main__ found no task: the process ends *)
RunEnds ==
    /\ g_pc = "running"
    /\ g_pc' = "exiting"
    /\ g_status' = IF g_calls = 0 THEN SysExit(1) ELSE ReturnStatus
    /\ UNCHANGED <<g_ext, g_own, OLLAMA_PROCESS, g_started, g_handlers,
                   g_calls, g_startOn, g_stopped>>
    /\ UNCHANGED nonGatewayVars

(* interpreter exit: every registered cleanup_ollama runs *)
AtExit ==
    /\ g_pc = "exiting"
    /\ g_pc' = "exited"
    /\ IF g_handlers > 0
       THEN /\ g_own' = Cleanup(OLLAMA_PROCESS, g_own)
            /\ g_stopped' = g_stopped \cup CleanupStops(OLLAMA_PROCESS)
       ELSE UNCHANGED <<g_own, g_stopped>>
    /\ UNCHANGED <<g_ext, OLLAMA_PROCESS, g_started, g_handlers, g_calls,
                   g_startOn, g_status>>
    /\ UNCHANGED nonGatewayVars

GatewayNext ==
    \/ QueryLlm
    \/ BackendDies
    \/ RunEnds
    \/ AtExit

GatewaySpec == GatewayInit /\ [][GatewayNext]_vars

----------------------------------------------------------------------------
(* What the claims speak of *)

Exited == pc = "exited"
Returned == Exited /\ raised = "none"
GatewayAborted == Exited /\ raised = "SystemExit" /\ lastReq # NoReq
TheArtifact == Filename(slugify(argv))
HandlerStep == pc = "diagnose" /\ pc' # "diagnose"

----------------------------------------------------------------------------
(* C1: when run_agent_loop has returned, "Failed after max retries" was
   reported, with the diagnostic of the latest failure, if and only if no
   execution succeeded. *)
C1_ExhaustedIffNoSuccess ==
    Returned =>
        ((outcome = "Exhausted" /\ reported = error_msg)
            <=> outcome # "Succeeded")

(* C2: when the execution of the final permitted attempt has failed and
   run_agent_loop has returned, no repair request was sent for it and
   Exhausted was reported with the diagnostic of that final attempt,
   whatever the classification and the installer's answer. *)
C2_FinalFailureReportsExhausted ==
    (Returned /\ execs = max_retries /\ outcome # "Succeeded") =>
        /\ outcome = "Exhausted"
        /\ reported = error_msg
        /\ lastReq = NoReq
        /\ requests <= max_retries

(* C3: a handler that finds a missing module and gets a successful install
   keeps the body, sends no model request and moves to the next attempt
   index, using one unit of the budget; the execution that follows reads
   from the script file the very body the failed execution ran.  This holds
   at every attempt, so for any number of missing modules in a row. *)
C3_InstallRetriesSameBody ==
    /\ [][(HandlerStep /\ ImportMatch(error_msg) /\ lastInstall' = "ok") =>
            /\ code' = code
            /\ requests' = requests
            /\ lastReq' = NoReq
            /\ attempt' = attempt + 1
            /\ execs' = execs
            /\ pc' = IF attempt' < max_retries THEN "write" ELSE "exited"]_vars
    /\ []((pc = "exec" /\ attempt > 0 /\ lastInstall = "ok") =>
            (FileBody(fs, filename) = ran /\ code = ran /\ lastReq = NoReq))

C3_Witness ==
    /\ pc = "exec"
    /\ attempt = max_retries - 1
    /\ installCalls = max_retries - 1
    /\ lastInstall = "ok"
    /\ requests = 1
    /\ FileBody(fs, filename) = ran

(* C4: a handler of a failure without a module-not-found match, on an
   attempt that is not the final one, sends exactly one repair request,
   whose context is the body that failed and the diagnostic of that
   failure; the body the request returns is the one the next attempt
   writes and executes. *)
C4_GenericFailureRepairs ==
    [][/\ (HandlerStep /\ ~ImportMatch(error_msg)
             /\ attempt < max_retries - 1) =>
            /\ pc' = "repair"
            /\ requests' = requests + 1
            /\ lastReq' = RepairContext(argv, code, error_msg)
            /\ lastReq'.broken_code = ran
       /\ (pc = "repair" /\ pc' = "write") =>
            /\ attempt' = attempt + 1
            /\ requests' = requests
       /\ (pc = "write" /\ pc' = "exec") =>
            FileBody(fs', filename) = code]_vars

(* C5: a handler that finds a missing module and gets a failed install does
   what the handler of a generic failure does: on an attempt that is not
   the final one it sends one repair request with the failing body and the
   diagnostic and stays on the attempt until the answer; on the final
   attempt it reports Exhausted with the diagnostic.  It never goes on to
   the next attempt with the same body. *)
C5_InstallFailureIsGeneric ==
    [][(HandlerStep /\ ImportMatch(error_msg) /\ lastInstall' = "failed") =>
            IF attempt < max_retries - 1
            THEN /\ pc' = "repair"
                 /\ requests' = requests + 1
                 /\ lastReq' = RepairContext(argv, code, error_msg)
                 /\ attempt' = attempt
                 /\ outcome' = outcome
            ELSE /\ pc' = "exited"
                 /\ outcome' = "Exhausted"
                 /\ reported' = error_msg
                 /\ requests' = requests
                 /\ raised' = "none"]_vars

C5_Witness ==
    /\ outcome = "Exhausted"
    /\ lastInstall = "failed"
    /\ installCalls = max_retries
    /\ requests = max_retries
    /\ reported = error_msg

(* C6: when the run ends in exhaustion, the process exits with a non-zero
   status. *)
C6_ExhaustionExitsNonZero ==
    (Exited /\ outcome = "Exhausted") => exitStatus # 0

(* C7: whatever the diagnostic text of a failing execution, no exception
   leaves run_agent_loop because of it: the process ends by an exception
   only for a missing task or a failed model gateway. *)
C7_NoUncaughtException ==
    (Exited /\ raised # "none") =>
        /\ raised = "SystemExit"
        /\ (argv = NoArg \/ lastReq # NoReq)

(* C8: once the process has ended after at least one execution, the working
   directory holds exactly one script file, at the path derived from the
   task text, and its body is the body the latest execution ran; while the
   loop runs there is never more than one. *)
C8_OneArtifactLastBody ==
    /\ Cardinality(fs) <= 1
    /\ (Exited /\ execs > 0) =>
        /\ Cardinality(fs) = 1
        /\ \A f \in fs :
            /\ f.path = TheArtifact
            /\ f.task = argv
            /\ f.body = ran
            /\ f.body = code

C8_Witness ==
    /\ Exited
    /\ execs = max_retries
    /\ installCalls > 0
    /\ requests > 2
    /\ Cardinality(fs) = 1
    /\ \E f \in fs : f.body = ran /\ f.mode = "Auto-Debugged"

(* C9: the attempt index never decreases, every new iteration starts with
   the index one higher than the iteration before, the script is executed
   once per iteration and at most max_retries times, and the run ends,
   given that every execution, installer call and model request returns. *)
C9_AttemptIncreasesAndTerminates ==
    /\ [][/\ attempt' \in {attempt, attempt + 1}
          /\ (pc' = "write" /\ pc # "generate") => attempt' = attempt + 1
          /\ execs' \in {execs, execs + 1}]_vars
    /\ [](/\ execs <= max_retries
          /\ attempt <= max_retries
          /\ (pc \in {"write", "exec"} => execs = attempt)
          /\ (pc \in {"diagnose", "repair"} => execs = attempt + 1))
    /\ <>Exited

C9_Witness ==
    /\ Exited
    /\ execs = max_retries
    /\ attempt = max_retries
    /\ installCalls = 2
    /\ requests = 3

(* C10: when the process has ended after executions that all failed without
   a module-not-found match, and no model request failed, there were exactly
   max_retries executions, max_retries - 1 repair requests after the one
   generation request, none of them pending, and Exhausted was reported
   with the diagnostic of the final attempt. *)
C10_AllGenericExhausts ==
    (Exited /\ execs > 0 /\ installCalls = 0 /\ outcome # "Succeeded"
        /\ ~GatewayAborted) =>
        /\ execs = max_retries
        /\ requests = max_retries
        /\ lastReq = NoReq
        /\ outcome = "Exhausted"
        /\ reported = error_msg

(* C11: a model request that does not return a body ends the process at
   once with a non-zero exit status, by the SystemExit of the gateway, and
   changes nothing else: no execution, no installer call, no further
   request, no write; and once the process has exited nothing happens. *)
C11_GatewayFailureAborts ==
    [][/\ (pc \in {"generate", "repair"} /\ pc' # "write") =>
            /\ pc' = "exited"
            /\ raised' = "SystemExit"
            /\ exitStatus' > 0
            /\ UNCHANGED <<execs, installCalls, requests, lastReq, fs, code,
                           attempt, outcome>>
       /\ Exited => UNCHANGED <<execs, installCalls, requests, fs>>]_vars

C11_Witness ==
    /\ GatewayAborted
    /\ lastReq.kind = "repair"
    /\ execs = 2
    /\ exitStatus = 1

(* C13: at every write the mode tag is Generated exactly when the body
   written came from the generation request (no repair request has been
   made), and Auto-Debugged exactly when it came from a repair request. *)
C13_ModeTagRecordsOrigin ==
    [][(pc = "write" /\ pc' = "exec") =>
            \A f \in fs' :
                /\ f.mode = "Generated" <=> requests = 1
                /\ f.mode = "Auto-Debugged" <=> requests > 1]_vars

(* C14: every attempt overwrites the one script file before it executes:
   the file then holds the task, the tag Generated on attempt 0 and
   Auto-Debugged on a later attempt, and the current body; every execution
   runs the body written on its attempt. *)
C14_WriteThenExecute ==
    /\ [][/\ (pc = "write" /\ pc' = "exec") =>
                /\ attempt' = attempt
                /\ fs' = {[path |-> TheArtifact, task |-> argv,
                           mode |-> IF attempt = 0 THEN "Generated"
                                    ELSE "Auto-Debugged",
                           body |-> code]}
          /\ (pc = "exec" /\ pc' # "exec") =>
                /\ execs' = execs + 1
                /\ ran' = code
                /\ fs' = fs]_vars
    /\ [](pc = "exec" =>
            \E f \in fs :
                /\ f.path = filename
                /\ f.body = code
                /\ (f.mode = "Generated") = (attempt = 0))

C14_Witness ==
    /\ pc = "diagnose"
    /\ attempt = 2
    /\ requests = 2
    /\ ran = code
    /\ \E f \in fs : f.mode = "Auto-Debugged" /\ f.body = ran

(* C17: in a run the script is executed at most max_retries times, the
   installer is called at most max_retries times and at most once per
   failed execution, and get_code is called at most max_retries times:
   once for the generation and at most max_retries - 1 times for a
   repair; the attempt index never exceeds max_retries. *)
C17_CallCountsBounded ==
    /\ execs <= max_retries
    /\ attempt <= max_retries
    /\ installCalls <= max_retries
    /\ installCalls <= execs - (IF outcome = "Succeeded" THEN 1 ELSE 0)
    /\ requests <= max_retries
    /\ (lastReq.kind = "create" => requests = 1)
    /\ (lastReq.kind = "repair" => requests \in 2..max_retries)
    /\ (execs > 0 => requests >= 1)

C17_Witness ==
    /\ Exited
    /\ execs = max_retries
    /\ requests = max_retries
    /\ installCalls = max_retries
    /\ lastInstall = "ok"

(* C18: success is reported only by the step that ends an execution, which
   ends the process with status zero; once success is reported there is no
   further write, execution, installer call or model request. *)
C18_SuccessEndsTheRun ==
    [][/\ (outcome' = "Succeeded" /\ outcome # "Succeeded") =>
            /\ pc = "exec"
            /\ execs' = execs + 1
            /\ pc' = "exited"
            /\ exitStatus' = 0
            /\ raised' = "none"
       /\ outcome = "Succeeded" =>
            UNCHANGED <<fs, execs, installCalls, requests, lastReq>>]_vars

C18_Witness ==
    /\ outcome = "Succeeded"
    /\ Exited
    /\ execs = 3
    /\ attempt = 2
    /\ exitStatus = 0

(* C15: a diagnostic text with a module-not-found message is classified
   MissingDependency, whatever else the text holds, with the package
   beautifulsoup4 for module bs4, scikit-learn for module sklearn and the
   module's own name otherwise, the module being the one of the first such
   message; a text without such a message is classified GenericFailure and
   carries the text. *)
C15_ClassifierAliases ==
    d_pc = "classified" =>
        IF \E i \in 1..Len(d_msg) : d_msg[i].k = "mnf"
        THEN \E i \in 1..Len(d_msg) :
                /\ d_msg[i].k = "mnf"
                /\ \A j \in 1..(i - 1) : d_msg[j].k # "mnf"
                /\ d_class.tag = "MissingDependency"
                /\ d_class.pkg =
                      CASE d_msg[i].mod = "bs4" -> "beautifulsoup4"
                        [] d_msg[i].mod = "sklearn" -> "scikit-learn"
                        [] OTHER -> d_msg[i].mod
        ELSE d_class.tag = "GenericFailure" /\ d_class.text = d_msg

C15_Witness ==
    /\ d_pc = "classified"
    /\ Len(d_msg) = 2
    /\ d_msg[1].k = "txt"
    /\ d_msg[2] = Mnf("sklearn")
    /\ d_class.tag = "MissingDependency"
    /\ d_class.pkg = "scikit-learn"

(* C16: the diagnostic text of a failed execution is the child's standard
   error when that is not empty, and the child's standard output when the
   standard error is empty and the standard output is not. *)
C16_DiagnosticFallsBackToStdout ==
    d_pc \in {"message", "classified"} =>
        /\ (d_stderr # EmptyText => d_msg = d_stderr)
        /\ (d_stderr = EmptyText /\ d_stdout # EmptyText => d_msg = d_stdout)

(* The slug before slugify cuts it, and two task texts whose slugs become
   equal only by the cut *)
UncutSlug(text) == CollapseSpaces(Clean(text))

CollideAfterTruncation(t1, t2) ==
    /\ UncutSlug(t1) # UncutSlug(t2)
    /\ Truncate(UncutSlug(t1)) = Truncate(UncutSlug(t2))

PairStarted == \A i \in Procs : p_pc[i] # "start"

(* C12, as stated: an invocation overwrites the other's script file only
   when the two task texts are the same or collide after the truncation of
   the slug; for two distinct task texts that do not collide after the
   truncation the paths differ and each invocation executes only files it
   wrote itself. *)
C12_OnlyTruncationCollides ==
    p_pc # <<>> =>
        /\ p_over =>
            \/ p_task[1] = p_task[2]
            \/ CollideAfterTruncation(p_task[1], p_task[2])
        /\ (/\ p_task[1] # p_task[2]
            /\ ~CollideAfterTruncation(p_task[1], p_task[2])) =>
                /\ PairStarted => p_file[1] # p_file[2]
                /\ \A i \in Procs : p_ran[i] \in {0, i}

(* C12, amended: an invocation overwrites the other's script file only when
   the two task texts have the same slug; for two task texts with
   different slugs the paths differ, each invocation executes only files
   it wrote itself, and its file holds its own task and, from the write
   on, its own body. *)
C12_OnlyEqualSlugsCollide ==
    p_pc # <<>> =>
        /\ p_over => slugify(p_task[1]) = slugify(p_task[2])
        /\ slugify(p_task[1]) # slugify(p_task[2]) =>
            /\ PairStarted => p_file[1] # p_file[2]
            /\ \A i \in Procs :
                /\ p_ran[i] \in {0, i}
                /\ \A f \in p_fs :
                    f.path = p_file[i] =>
                        /\ f.task = p_task[i]
                        /\ p_pc[i] \in {"exec", "done"} => f.body = p_code[i]

C12_Witness ==
    /\ p_pc = [i \in Procs |-> "done"]
    /\ slugify(p_task[1]) # slugify(p_task[2])
    /\ Len(p_task[1]) > SlugMax
    /\ Cardinality(p_fs) = 2
    /\ p_ran = [i \in Procs |-> i]
    /\ p_attempt[1] = 2
    /\ p_attempt[2] = max_retries

(* C19: a backend process is started only when the reachability check
   failed; the run terminates only processes it started, so never the
   backend that was running before; and after the process has exited no
   backend process that the run started is still running. *)
C19_BackendLifecycle ==
    /\ g_startOn \subseteq {"connection_error"}
    /\ g_stopped \subseteq 1..g_started
    /\ 0 \notin g_stopped
    /\ g_pc = "exited" => g_own = {}

====
